---- MODULE Spec2Model ----
(***************************************************************************)
(* A model of the STOMP queue simulator (src/stomp.py) and of the META DAG *)
(* manager (src/meta.py).                                                  *)
(*                                                                         *)
(* Spec            STOMP.run of src/stomp.py with a scheduling policy that *)
(*                 honours the policy interface.                           *)
(* SpecPolicyError STOMP.run with a policy that may hand back a server     *)
(*                 that was already busy.                                  *)
(* SpecMeta        META.run of src/meta.py against the shared ready queue  *)
(*                 and completion queue.                                   *)
(* FairSpecEager   STOMP.run with a policy that binds whenever it can,     *)
(*                 with and without servers, the main loop weakly fair.    *)
(* FairSpecMetaNoTasks  META.run next to a simulator that is given         *)
(*                 max_tasks_simulated = 0, both threads weakly fair.      *)
(* FairSpecLocks   META.run next to a simulator whose sections on the two  *)
(*                 locks last several steps.                               *)
(***************************************************************************)
EXTENDS Integers, Sequences, FiniteSets, TLC

(***************************************************************************)
(* Bounds of the model.                                                    *)
(***************************************************************************)
\* params['simulation']['max_tasks_simulated']
MaxTasks == 2
\* params['simulation']['max_queue_size']
MaxQueue == 1
\* largest service time int(round(normal(...))) yields
MaxService == 1
\* the most negative service time int(round(normal(...))) yields is -NegDraw
NegDraw == 1
\* largest inter-arrival gap int(round(sim_time + exponential(...))) - sim_time
MaxInterArrival == 1
\* number of lines of the DAG arrival trace
MaxDags == 2
\* largest arrival time of the trace, already scaled by arrival_time_scale
MaxArrival == 1
\* number of tasks of the fully chained DAG type
ChainLen == 2
\* number of tasks of all the DAGs of one arrival trace
MaxTraceTasks == 3

(***************************************************************************)
(* Values.                                                                 *)
(***************************************************************************)
\* float("inf"): larger than every finite instant of a bounded run
Inf == 1000000

\* Python's None, and a present value, as an option
None == <<>>
Some(v) == <<v>>
Val(o) == o[1]

\* float arithmetic with inf: inf + x = inf
Plus(a, b) == IF a = Inf THEN Inf ELSE a + b

Min(a, b) == IF a <= b THEN a ELSE b

\* the service times one draw of int(round(numpy.random.normal(...))) may yield
ServiceTimes == (0 - NegDraw)..MaxService

\* the gaps int(round(sim_time + numpy.random.exponential(...))) - sim_time may yield
InterArrivals == 0..MaxInterArrival

\* params['simulation']['tasks']: the task types numpy.random.choice draws from
TaskTypes == {"fft"}

\* params['simulation']['servers']: server types, in the dictionary's order
ServerTypeList == <<"cpu_core", "gpu">>
ServerTypes == {ServerTypeList[i] : i \in 1..Len(ServerTypeList)}
\* params['simulation']['servers'][t]['count']: one server of each type
ServerCount == [t \in ServerTypes |-> 1]

\* number of histogram bins: numpy.zeros(10, dtype=int)
NumBins == 10

RECURSIVE SumCounts(_)
SumCounts(i) == IF i = 0 THEN 0 ELSE ServerCount[ServerTypeList[i]] + SumCounts(i - 1)
NumServers == SumCounts(Len(ServerTypeList))
ServerIds == 0..(NumServers - 1)

\* init_servers: ids are handed out type by type, in the dictionary's order
RECURSIVE TypeOfFrom(_, _)
TypeOfFrom(id, i) ==
    IF id < ServerCount[ServerTypeList[i]] THEN ServerTypeList[i]
    ELSE TypeOfFrom(id - ServerCount[ServerTypeList[i]], i + 1)
ServerTypeOf(id) == TypeOfFrom(id, 1)

VARIABLES
    \* ---- STOMP (src/stomp.py) ----
    pc,                      \* position of the simulator: "run", "exited", "printed", "error"
    power_mgmt_enabled,      \* params['simulation']['power_mgmt_enabled']
    sim_time,
    tasks,                   \* main queue, a sequence of Task
    servers,                 \* id -> Server
    stats,                   \* the stats dictionary
    histogram,               \* stats['Queue Size Histogram']
    last_size_change_time,
    next_cust_arrival_time,
    next_power_mgmt_time,
    next_serv_end_time,
    next_serv_end,           \* None or Some(server id)
    last_event,              \* the event handled by the last iteration
    max_tasks_simulated,     \* params['simulation']['max_tasks_simulated']
    on_release_arg,          \* the server as remove_task_from_server last saw it
    last_pick,               \* whether the last assign_task_to_server returned a server
    occupancy,               \* queue size -> virtual time the queue spent at that size
    \* ---- META (src/meta.py) ----
    mpc,                     \* position of META.run
    dag_dict,                \* dag_id -> DAG
    dag_id_list,
    end_list,
    completed_list,          \* local list of META.run
    temp_task_trace,         \* local list of META.run
    out_csv,                 \* the rows written to out.csv
    \* ---- shared between META and the simulator ----
    global_task_trace,       \* the ready queue
    tasks_completed,         \* the completion queue
    task_completed_flag,
    lock,                    \* owner of stomp.lock: "free", "meta", "stomp"
    tlock,                   \* owner of stomp.tlock
    E_META_START,
    E_META_DONE,
    \* ---- history of the run, read by no operation ----
    loaded,                  \* the lines of the arrival trace
    emitted,                 \* the <<dag_id, tid>> of every descriptor built, in order
    processed,               \* the completion records META has applied to a DAG
    retired                  \* one entry per terminal DAG, in order of retirement

\* the parameter of the run and what an observer of the run records
stompObs == <<max_tasks_simulated, on_release_arg, last_pick, occupancy>>

stompVars == <<pc, power_mgmt_enabled, sim_time, tasks, servers, stats, histogram,
               last_size_change_time, next_cust_arrival_time, next_power_mgmt_time,
               next_serv_end_time, next_serv_end, last_event, stompObs>>

metaVars == <<mpc, dag_dict, dag_id_list, end_list, completed_list, temp_task_trace,
              out_csv>>

sharedVars == <<global_task_trace, tasks_completed, task_completed_flag, lock, tlock,
                E_META_START, E_META_DONE>>

historyVars == <<loaded, emitted, processed, retired>>

vars == <<stompVars, metaVars, sharedVars, historyVars>>

(***************************************************************************)
(* class Task, class Server                                                *)
(***************************************************************************)
\* Task.__init__: the fields the simulator reads
Task(time, type) == [type |-> type, arrival_time |-> time]

\* Server.reset
ServerReset(srv) ==
    [srv EXCEPT !.busy = FALSE,
                !.curr_service_time = None,
                !.curr_job_start_time = None,
                !.curr_job_end_time = None,
                !.task = None]

\* Server.__init__
Server(id, type) ==
    ServerReset([id |-> id, type |-> type, num_reqs |-> 0, last_stopped_at |-> 0,
                 busy_time |-> 0, busy |-> FALSE, curr_service_time |-> None,
                 curr_job_start_time |-> None, curr_job_end_time |-> None,
                 task |-> None])

\* Server.assign_task; service_time is the draw of line 95
assign_task(srv, time, task, service_time) ==
    [srv EXCEPT !.busy = TRUE,
                !.curr_service_time = Some(service_time),
                !.curr_job_start_time = Some(time),
                !.curr_job_end_time = Some(Plus(time, service_time)),
                !.num_reqs = @ + 1,
                !.task = Some(task),
                !.busy_time = @ + service_time]

(***************************************************************************)
(* The simulator's state as one value, so that a handler and the           *)
(* scheduling step that follows it compose inside one loop iteration.      *)
(***************************************************************************)
Cur == [pc |-> pc, sim_time |-> sim_time, tasks |-> tasks, servers |-> servers,
        stats |-> stats, histogram |-> histogram,
        last_size_change_time |-> last_size_change_time,
        next_cust_arrival_time |-> next_cust_arrival_time,
        next_power_mgmt_time |-> next_power_mgmt_time,
        next_serv_end_time |-> next_serv_end_time,
        next_serv_end |-> next_serv_end,
        on_release_arg |-> on_release_arg, last_pick |-> last_pick]

Become(s, ev) ==
    /\ pc' = s.pc
    /\ sim_time' = s.sim_time
    /\ tasks' = s.tasks
    /\ servers' = s.servers
    /\ stats' = s.stats
    /\ histogram' = s.histogram
    /\ last_size_change_time' = s.last_size_change_time
    /\ next_cust_arrival_time' = s.next_cust_arrival_time
    /\ next_power_mgmt_time' = s.next_power_mgmt_time
    /\ next_serv_end_time' = s.next_serv_end_time
    /\ next_serv_end' = s.next_serv_end
    /\ last_event' = ev
    /\ on_release_arg' = s.on_release_arg
    /\ last_pick' = s.last_pick
    /\ occupancy' = [occupancy EXCEPT ![Min(Len(tasks), NumBins - 1)] =
                                          @ + (s.sim_time - sim_time)]
    /\ UNCHANGED <<power_mgmt_enabled, max_tasks_simulated, metaVars, sharedVars,
                   historyVars>>

\* UpdateHistogram that leaves last_size_change_time as it was
UpdateHistogram_KeepsLastChange(s, queue_size) ==
    LET bin == Min(queue_size, NumBins - 1)
        time_period == s.sim_time - s.last_size_change_time
    IN  IF s.sim_time = Inf
        THEN [s EXCEPT !.pc = "error"]
        ELSE [s EXCEPT !.histogram[bin] = @ + time_period]

\* "Update histogram": the period since the last size change is credited to
\* the bin of queue_size; an infinite period cannot be stored in the integer
\* array and the statement raises
UpdateHistogram(s, queue_size) ==
    LET bin == Min(queue_size, NumBins - 1)
        time_period == s.sim_time - s.last_size_change_time
    IN  IF s.sim_time = Inf
        THEN [s EXCEPT !.pc = "error"]
        ELSE [s EXCEPT !.histogram[bin] = @ + time_period,
                       !.last_size_change_time = s.sim_time]

\* generate_n_enqueue_new_task that leaves stats['Tasks Generated'] alone
generate_n_enqueue_new_task_NoCount(s, type) ==
    IF Len(s.tasks) = MaxQueue
    THEN <<FALSE, s>>
    ELSE LET h == UpdateHistogram(s, Len(s.tasks))
         IN  <<TRUE, [h EXCEPT !.tasks = Append(@, Task(s.sim_time, type))]>>

\* STOMP.generate_n_enqueue_new_task: <<returned value, state>>
generate_n_enqueue_new_task(s, type) ==
    IF Len(s.tasks) = MaxQueue
    THEN <<FALSE, s>>
    ELSE LET h == UpdateHistogram(s, Len(s.tasks))
         IN  <<TRUE, [h EXCEPT !.tasks = Append(@, Task(s.sim_time, type)),
                               !.stats["Tasks Generated"] = @ + 1]>>

\* a scan that looks at no server
ScanServers_NoRescan(srvs, id, endt, ends) == <<endt, ends>>

\* "Determine next server end time": the scan of release_server, in list order
RECURSIVE ScanServers(_, _, _, _)
ScanServers(srvs, id, endt, ends) ==
    IF id \notin DOMAIN srvs THEN <<endt, ends>>
    ELSE IF srvs[id].busy /\ Val(srvs[id].curr_job_end_time) <= endt
         THEN ScanServers(srvs, id + 1, Val(srvs[id].curr_job_end_time), Some(id))
         ELSE ScanServers(srvs, id + 1, endt, ends)

\* release_server that resets the server before it calls the hook
release_server_ResetFirst(s, id) ==
    LET srv == s.servers[id]
        task == Val(srv.task)
        resp_time == s.sim_time - task.arrival_time
        st1 == [s.stats EXCEPT !["Avg Resp Time"] = @ + resp_time,
                               !["Avg Resp Time per Type"][task.type] = @ + resp_time,
                               !["Tasks Serviced"] = @ + 1,
                               !["Tasks Serviced per Type"][task.type] = @ + 1,
                               !["Busy Servers"] = @ - 1,
                               !["Available Servers"][srv.type] = @ + 1]
        srvs == [s.servers EXCEPT ![id] = [ServerReset(srv) EXCEPT !.last_stopped_at = s.sim_time]]
        scan == ScanServers(srvs, 0, Inf, None)
    IN  [s EXCEPT !.stats = st1, !.servers = srvs,
                  !.on_release_arg = Some([busy |-> srvs[id].busy,
                                          has_task |-> srvs[id].task # None]),
                  !.next_serv_end_time = scan[1], !.next_serv_end = scan[2]]

\* STOMP.release_server; remove_task_from_server is called with the server
\* as it is at line 269, ahead of server.reset()
release_server(s, id) ==
    LET srv == s.servers[id]
        task == Val(srv.task)
        resp_time == s.sim_time - task.arrival_time
        st1 == [s.stats EXCEPT !["Avg Resp Time"] = @ + resp_time,
                               !["Avg Resp Time per Type"][task.type] = @ + resp_time,
                               !["Tasks Serviced"] = @ + 1,
                               !["Tasks Serviced per Type"][task.type] = @ + 1,
                               !["Busy Servers"] = @ - 1,
                               !["Available Servers"][srv.type] = @ + 1]
        srvs == [s.servers EXCEPT ![id] = [ServerReset(srv) EXCEPT !.last_stopped_at = s.sim_time]]
        scan == ScanServers(srvs, 0, Inf, None)
    IN  [s EXCEPT !.stats = st1, !.servers = srvs,
                  !.on_release_arg = Some([busy |-> srv.busy, has_task |-> srv.task # None]),
                  !.next_serv_end_time = scan[1], !.next_serv_end = scan[2]]

(***************************************************************************)
(* STOMP.run: one main-loop iteration is one action.                       *)
(***************************************************************************)
E_PWR_MGMT == 1
E_TASK_ARRIVAL == 2
E_SERVER_FINISHES == 3
E_NOTHING == 4

\* the while condition of the main loop
LoopCondition(s) ==
    \/ s.stats["Tasks Generated"] < max_tasks_simulated
    \/ Len(s.tasks) > 0
    \/ s.stats["Busy Servers"] > 0

\* NextEvent whose arrival test is strict against next_serv_end_time
NextEvent_FinishFirst(s) ==
    IF /\ power_mgmt_enabled
       /\ \/ s.next_power_mgmt_time <= s.next_cust_arrival_time
          \/ s.stats["Tasks Generated"] >= max_tasks_simulated
       /\ s.next_power_mgmt_time <= s.next_serv_end_time
    THEN E_PWR_MGMT
    ELSE IF /\ s.stats["Tasks Generated"] < max_tasks_simulated
            /\ \/ s.next_cust_arrival_time <= s.next_power_mgmt_time
               \/ ~power_mgmt_enabled
            /\ \/ s.next_cust_arrival_time < s.next_serv_end_time
               \/ s.stats["Tasks Generated"] >= max_tasks_simulated
    THEN E_TASK_ARRIVAL
    ELSE E_SERVER_FINISHES

\* "1) Determine next event to handle"
NextEvent(s) ==
    IF /\ power_mgmt_enabled
       /\ \/ s.next_power_mgmt_time <= s.next_cust_arrival_time
          \/ s.stats["Tasks Generated"] >= max_tasks_simulated
       /\ s.next_power_mgmt_time <= s.next_serv_end_time
    THEN E_PWR_MGMT
    ELSE IF /\ s.stats["Tasks Generated"] < max_tasks_simulated
            /\ \/ s.next_cust_arrival_time <= s.next_power_mgmt_time
               \/ ~power_mgmt_enabled
            /\ \/ s.next_cust_arrival_time <= s.next_serv_end_time
               \/ s.stats["Tasks Generated"] >= max_tasks_simulated
    THEN E_TASK_ARRIVAL
    ELSE E_SERVER_FINISHES

\* the two assertions of the SERVER_FINISHES branch
SelectionAsserts(s) ==
    /\ \/ s.next_serv_end_time <= s.next_power_mgmt_time
       \/ ~power_mgmt_enabled
    /\ \/ s.next_serv_end_time <= s.next_cust_arrival_time
       \/ s.stats["Tasks Generated"] >= max_tasks_simulated

\* "2) Handle the event": E_PWR_MGMT
HandlePwrMgmt(s) == [s EXCEPT !.sim_time = s.next_power_mgmt_time]

\* "2) Handle the event": E_TASK_ARRIVAL; type and gap are the random draws
HandleTaskArrival(s, type, gap) ==
    LET s1 == [s EXCEPT !.sim_time = s.next_cust_arrival_time]
        g == generate_n_enqueue_new_task(s1, type)
    IN  IF g[1] /\ g[2].pc # "error"
        THEN [g[2] EXCEPT !.next_cust_arrival_time = Plus(s1.sim_time, gap)]
        ELSE g[2]

\* HandleServerFinishes that leaves stats['Running Tasks'] as it was
HandleServerFinishes_KeepsRunning(s) ==
    IF ~SelectionAsserts(s) \/ s.next_serv_end = None
    THEN [s EXCEPT !.pc = "error",
                   !.sim_time = IF SelectionAsserts(s) THEN s.next_serv_end_time ELSE @]
    ELSE release_server([s EXCEPT !.sim_time = s.next_serv_end_time], Val(s.next_serv_end))

\* "2) Handle the event": E_SERVER_FINISHES, with the assertions before it
HandleServerFinishes(s) ==
    IF ~SelectionAsserts(s) \/ s.next_serv_end = None
    THEN [s EXCEPT !.pc = "error",
                   !.sim_time = IF SelectionAsserts(s) THEN s.next_serv_end_time ELSE @]
    ELSE LET s1 == [s EXCEPT !.sim_time = s.next_serv_end_time]
             r == release_server(s1, Val(s.next_serv_end))
         IN  [r EXCEPT !.stats["Running Tasks"] = @ - 1]

\* the servers a policy that honours the interface may bind: the idle ones
IdleServers(s) == {id \in DOMAIN s.servers : ~s.servers[id].busy}

RemoveAt(q, i) == SubSeq(q, 1, i - 1) \o SubSeq(q, i + 1, Len(q))

\* the servers a policy may bind: the idle ones when it honours the
\* interface ("conforming", "eager"), every server when it does not
\* ("rebinding")
Candidates(s, policy) == IF policy = "rebinding" THEN DOMAIN s.servers ELSE IdleServers(s)

\* BaseSchedulingPolicy.assign_task_to_server: the bindings a policy may make
\* among the given servers; None stands for "no binding on this tick"
PolicyChoices(s, candidates) ==
    {None} \cup {Some(<<ti, id, st>>) : ti \in 1..Len(s.tasks), id \in candidates,
                                         st \in ServiceTimes}

\* what one call of assign_task_to_server may do: an "eager" policy binds
\* whenever a task waits and a server is idle, the others may also decline
PolicyReturns(s, policy) ==
    LET all == PolicyChoices(s, Candidates(s, policy))
    IN  IF policy = "eager" /\ all # {None} THEN all \ {None} ELSE all

\* the policy's side of a binding: it removes the task from the queue and
\* calls assign_task on the server
PolicyBind(s, ti, id, st) ==
    [s EXCEPT !.tasks = RemoveAt(@, ti),
              !.servers[id] = assign_task(@, s.sim_time, s.tasks[ti], st)]

\* "3) Make scheduling decisions": the simulator's bookkeeping for the
\* server the policy returned
\* AccountBinding with the update of stats['Available Servers'] left out
AccountBinding_KeepsAvailable(s, id) ==
    LET srv == s.servers[id]
        closer == Val(srv.curr_job_end_time) < s.next_serv_end_time
        s1 == [s EXCEPT !.next_serv_end_time = IF closer THEN Val(srv.curr_job_end_time) ELSE @,
                        !.next_serv_end = IF closer THEN Some(id) ELSE @,
                        !.stats["Running Tasks"] = @ + 1,
                        !.stats["Busy Servers"] = @ + 1]
    IN  UpdateHistogram(s1, Len(s1.tasks) + 1)

AccountBinding(s, id) ==
    LET srv == s.servers[id]
        closer == Val(srv.curr_job_end_time) < s.next_serv_end_time
        s1 == [s EXCEPT !.next_serv_end_time = IF closer THEN Val(srv.curr_job_end_time) ELSE @,
                        !.next_serv_end = IF closer THEN Some(id) ELSE @,
                        !.stats["Running Tasks"] = @ + 1,
                        !.stats["Busy Servers"] = @ + 1,
                        !.stats["Available Servers"][srv.type] = @ - 1]
    IN  UpdateHistogram(s1, Len(s1.tasks) + 1)

\* MakeSchedulingDecisions that never asks the policy
MakeSchedulingDecisions_Skips(s, choice) ==
    IF s.pc = "error" THEN s ELSE [s EXCEPT !.last_pick = FALSE]

\* "3) Make scheduling decisions": assign_task_to_server is called once; the
\* server it returns, if any, is accounted
MakeSchedulingDecisions(s, choice) ==
    IF s.pc = "error" THEN s
    ELSE IF choice = None THEN [s EXCEPT !.last_pick = FALSE]
    ELSE LET c == Val(choice)
         IN  AccountBinding([PolicyBind(s, c[1], c[2], c[3]) EXCEPT !.last_pick = TRUE],
                            c[2])

\* one iteration whose event is E_PWR_MGMT
PwrMgmtEvent(policy) ==
    /\ pc = "run" /\ LoopCondition(Cur)
    /\ NextEvent(Cur) = E_PWR_MGMT
    /\ LET h == HandlePwrMgmt(Cur)
       IN  \E choice \in PolicyReturns(h, policy) :
               Become(MakeSchedulingDecisions(h, choice), E_PWR_MGMT)

\* one iteration whose event is E_TASK_ARRIVAL
TaskArrivalEvent(policy) ==
    /\ pc = "run" /\ LoopCondition(Cur)
    /\ NextEvent(Cur) = E_TASK_ARRIVAL
    /\ \E type \in TaskTypes, gap \in InterArrivals :
         LET h == HandleTaskArrival(Cur, type, gap)
         IN  \E choice \in PolicyReturns(h, policy) :
                 Become(MakeSchedulingDecisions(h, choice), E_TASK_ARRIVAL)

\* one iteration whose event is E_SERVER_FINISHES
ServerFinishesEvent(policy) ==
    /\ pc = "run" /\ LoopCondition(Cur)
    /\ NextEvent(Cur) = E_SERVER_FINISHES
    /\ LET h == HandleServerFinishes(Cur)
       IN  \E choice \in PolicyReturns(h, policy) :
               Become(MakeSchedulingDecisions(h, choice), E_SERVER_FINISHES)

\* the loop condition is false: run() closes the trace files and returns
LoopExit ==
    /\ pc = "run" /\ ~LoopCondition(Cur)
    /\ pc' = "exited"
    /\ last_event' = E_NOTHING
    /\ UNCHANGED <<power_mgmt_enabled, sim_time, tasks, servers, stats, histogram,
                   last_size_change_time, next_cust_arrival_time, next_power_mgmt_time,
                   next_serv_end_time, next_serv_end, stompObs, metaVars, sharedVars,
                   historyVars>>

\* STOMP.print_stats up to the normalisation of the histogram: the average
\* is taken first (a division by stats['Tasks Serviced'], kept as the pair
\* <<total, count>>), then comes the final histogram update
PrintStats ==
    /\ pc = "exited"
    /\ LET h == UpdateHistogram(Cur, Len(tasks))
       IN  IF stats["Tasks Serviced"] = 0 \/ h.pc = "error"
           THEN /\ pc' = "error"
                /\ UNCHANGED <<stats, histogram, last_size_change_time>>
           ELSE /\ pc' = "printed"
                /\ stats' = [stats EXCEPT !["Avg Resp Time"] =
                                 <<stats["Avg Resp Time"], stats["Tasks Serviced"]>>]
                /\ histogram' = h.histogram
                /\ last_size_change_time' = h.last_size_change_time
    /\ UNCHANGED <<power_mgmt_enabled, sim_time, tasks, servers, next_cust_arrival_time,
                   next_power_mgmt_time, next_serv_end_time, next_serv_end, last_event,
                   stompObs, metaVars, sharedVars, historyVars>>

\* the server counts a configuration may give: one server of each type, or
\* zero servers of every type
ServerConfigs == {ServerCount, [t \in ServerTypes |-> 0]}

\* init_servers: the list of servers for the counts of a configuration
init_servers(count) ==
    [id \in {i \in ServerIds : count[ServerTypeOf(i)] > 0} |-> Server(id, ServerTypeOf(id))]

\* STOMP.__init__, init_servers and the prologue of run(), for the server
\* counts of a configuration
StompStart(count) ==
    /\ pc = "run"
    /\ power_mgmt_enabled \in BOOLEAN
    /\ sim_time = 0
    /\ tasks = <<>>
    /\ servers = init_servers(count)
    /\ stats = ("Running Tasks" :> 0) @@ ("Busy Servers" :> 0)
                @@ ("Available Servers" :> [t \in ServerTypes |-> count[t]])
                @@ ("Tasks Generated" :> 0) @@ ("Tasks Serviced" :> 0)
                @@ ("Tasks Serviced per Type" :> [t \in TaskTypes |-> 0])
                @@ ("Avg Resp Time" :> 0)
                @@ ("Avg Resp Time per Type" :> [t \in TaskTypes |-> 0])
    /\ histogram = [b \in 0..(NumBins - 1) |-> 0]
    /\ last_size_change_time = 0
    /\ next_cust_arrival_time = 0
    /\ next_power_mgmt_time = Inf
    /\ next_serv_end_time = Inf
    /\ next_serv_end = None
    /\ last_event = E_NOTHING
    /\ on_release_arg = None
    /\ last_pick = FALSE
    /\ occupancy = [b \in 0..(NumBins - 1) |-> 0]

\* the configuration with one server of each type
StompInit == StompStart(ServerCount)

\* META.__init__ and the bridge fields of the simulator, before any trace is read
MetaIdle ==
    /\ mpc = "idle"
    /\ dag_dict = <<>>
    /\ dag_id_list = <<>>
    /\ end_list = <<>>
    /\ completed_list = <<>>
    /\ temp_task_trace = <<>>
    /\ out_csv = <<>>
    /\ global_task_trace = <<>>
    /\ tasks_completed = <<>>
    /\ task_completed_flag = 0
    /\ lock = "free"
    /\ tlock = "free"
    /\ E_META_START = 0
    /\ E_META_DONE = 0
    /\ loaded = <<>>
    /\ emitted = <<>>
    /\ processed = <<>>
    /\ retired = <<>>

Init == StompInit /\ max_tasks_simulated \in 0..MaxTasks /\ MetaIdle

Next ==
    \/ PwrMgmtEvent("conforming")
    \/ TaskArrivalEvent("conforming")
    \/ ServerFinishesEvent("conforming")
    \/ LoopExit
    \/ PrintStats

Spec == Init /\ [][Next]_vars

\* the simulator run with a policy that may also rebind a server that is busy
NextPolicyError ==
    \/ PwrMgmtEvent("rebinding")
    \/ TaskArrivalEvent("rebinding")
    \/ ServerFinishesEvent("rebinding")
    \/ LoopExit
    \/ PrintStats

SpecPolicyError == Init /\ [][NextPolicyError]_vars

\* the simulator run with a policy that binds whenever a task waits and a
\* server is idle, for either server configuration and with enough tasks to
\* fill every server and the queue and have another one arrive.  run() is a
\* single loop: while an iteration is possible, one is taken.
InitEager ==
    /\ \E count \in ServerConfigs : StompStart(count)
    /\ max_tasks_simulated \in 0..(NumServers + MaxQueue + 1)
    /\ MetaIdle

NextEager ==
    \/ PwrMgmtEvent("eager")
    \/ TaskArrivalEvent("eager")
    \/ ServerFinishesEvent("eager")
    \/ LoopExit
    \/ PrintStats

FairSpecEager == InitEager /\ [][NextEager]_vars /\ WF_vars(NextEager)

(***************************************************************************)
(* META (src/meta.py): inputs                                              *)
(***************************************************************************)
\* META.__init__: self.server_types
server_types == <<"cpu_core", "gpu", "accel">>

\* the DAG types for which inputs/random_dag_<type>.graphml exists
DagTypes == {"single", "chain", "join"}

\* nx.read_graphml: the nodes of the graph, in the graph's iteration order
GraphNodes(type) ==
    CASE type = "single" -> <<0>>
      [] type = "chain" -> [i \in 1..ChainLen |-> i - 1]
      [] type = "join" -> <<0, 1, 2>>

\* nx.read_graphml: the edges <<u, v>>, u must precede v
GraphEdges(type) ==
    CASE type = "single" -> {}
      [] type = "chain" -> {<<i - 1, i>> : i \in 1..(ChainLen - 1)}
      [] type = "join" -> {<<0, 2>>, <<1, 2>>}

\* read_matrix: one row per tid; two leading columns, then one column per
\* server type
read_matrix(type) ==
    [row \in 1..Len(GraphNodes(type)) |-> <<row - 1, 1, 1, 1, 1>>]

\* the lines a DAG arrival trace may hold
TraceLines == [atime : 0..MaxArrival, dag_id : 0..(MaxDags - 1), dag_type : DagTypes]
RECURSIVE TraceTasks(_, _)
TraceTasks(trace, i) ==
    IF i = 0 THEN 0 ELSE Len(GraphNodes(trace[i].dag_type)) + TraceTasks(trace, i - 1)
Traces == {trace \in UNION {[1..n -> TraceLines] : n \in 1..MaxDags} :
              TraceTasks(trace, Len(trace)) <= MaxTraceTasks}

\* class DAG
DAG(dag_id, graph, comp, atime, dag_type) ==
    [id |-> dag_id, graph |-> graph, comp |-> comp, arrival_time |-> atime,
     resp_time |-> 0, ready_time |-> atime, dag_type |-> dag_type]

\* the graph of one trace line: nodes, edges and the nodes whose scheduled
\* attribute is 1
ReadGraph(type) == [nodes |-> GraphNodes(type), edges |-> GraphEdges(type), scheduled |-> {}]

\* dictionary helpers
DictSet(d, k, v) == [x \in (DOMAIN d) \cup {k} |-> IF x = k THEN v ELSE d[x]]
DictDel(d, k) == [x \in (DOMAIN d) \ {k} |-> d[x]]

\* list.remove(x): the first occurrence goes
RECURSIVE ListRemove(_, _)
ListRemove(l, x) ==
    IF l = <<>> THEN <<>>
    ELSE IF Head(l) = x THEN Tail(l)
    ELSE <<Head(l)>> \o ListRemove(Tail(l), x)

\* "Read input DAGs": the dictionary and the list after the first i lines
RECURSIVE LoadTrace(_, _)
LoadTrace(trace, i) ==
    IF i = 0 THEN [dict |-> <<>>, list |-> <<>>]
    ELSE LET prev == LoadTrace(trace, i - 1)
             line == trace[i]
             the_dag_trace == DAG(line.dag_id, ReadGraph(line.dag_type),
                                  read_matrix(line.dag_type), line.atime, line.dag_type)
         IN  [dict |-> DictSet(prev.dict, line.dag_id, the_dag_trace),
              list |-> Append(prev.list, line.dag_id)]

(***************************************************************************)
(* META.run: the loop body                                                 *)
(***************************************************************************)
\* graph.remove_node
remove_node(g, n) ==
    [nodes |-> SelectSeq(g.nodes, LAMBDA x : x # n),
     edges |-> {e \in g.edges : e[1] # n /\ e[2] # n},
     scheduled |-> g.scheduled \ {n}]

\* graph.in_degree of one node
in_degree(g, n) == Cardinality({e \in g.edges : e[2] = n})

HasNode(g, n) == \E i \in 1..Len(g.nodes) : g.nodes[i] = n

\* "UPDATE BASED ON COMPLETED TASKS": the for loop over the nodes of the DAG
UpdateCompleted(dag, task_completed) ==
    IF HasNode(dag.graph, task_completed.tid)
    THEN LET ready == task_completed.arrival_time + task_completed.task_lifetime
         IN  [dag EXCEPT !.ready_time = ready,
                         !.resp_time = ready - dag.arrival_time,
                         !.graph = remove_node(@, task_completed.tid)]
    ELSE dag

\* process_comp_time
process_comp_time(dag, tid) ==
    LET row == dag.comp[tid + 1]
    IN  [k \in 1..(Len(row) - 2) |-> <<server_types[k], row[k + 2]>>]

\* TaskEntry that takes the arrival time of the DAG for every node
TaskEntry_ArrivalOnly(dag, dag_id, tid) ==
    [atime |-> dag.arrival_time,
     task |-> dag.comp[tid + 1][1],
     dag_id |-> dag_id,
     tid |-> tid,
     stimes |-> process_comp_time(dag, tid)]

\* the task entry built for a ready node
TaskEntry(dag, dag_id, tid) ==
    [atime |-> IF tid = 0 THEN dag.arrival_time ELSE dag.ready_time,
     task |-> dag.comp[tid + 1][1],
     dag_id |-> dag_id,
     tid |-> tid,
     stimes |-> process_comp_time(dag, tid)]

\* IsReady without the test of the in-degree
IsReady_IgnoresDegree(g, n) == n \notin g.scheduled

\* "if deg == 0 and node.scheduled == 0": whether the scan emits a node
IsReady(g, n) == in_degree(g, n) = 0 /\ n \notin g.scheduled

\* MarkScheduled that leaves the node as it was
MarkScheduled_Forgets(dag, n) == dag

\* node.scheduled = 1
MarkScheduled(dag, n) == [dag EXCEPT !.graph.scheduled = @ \cup {n}]

\* "Push ready tasks into queue": the nodes of one DAG from position i on;
\* yields the DAG with the emitted nodes marked and the entries built
RECURSIVE ScanNodes(_, _, _, _)
ScanNodes(dag, dag_id, i, acc) ==
    IF i > Len(dag.graph.nodes) THEN [dag |-> dag, entries |-> acc]
    ELSE LET n == dag.graph.nodes[i]
         IN  IF IsReady(dag.graph, n)
             THEN ScanNodes(MarkScheduled(dag, n), dag_id, i + 1,
                            Append(acc, TaskEntry(dag, dag_id, n)))
             ELSE ScanNodes(dag, dag_id, i + 1, acc)

\* "READY TASK PRIORTIZATION AND SUBMISSION": the loop over dag_id_list from
\* position i on; a dag_id missing from dag_dict raises KeyError
RECURSIVE ScanDags(_, _, _, _)
ScanDags(dict, list, i, acc) ==
    IF i > Len(list) THEN [dict |-> dict, entries |-> acc, ok |-> TRUE]
    ELSE IF list[i] \notin DOMAIN dict THEN [dict |-> dict, entries |-> acc, ok |-> FALSE]
    ELSE LET r == ScanNodes(dict[list[i]], list[i], 1, <<>>)
         IN  ScanDags(DictSet(dict, list[i], r.dag), list, i + 1, acc \o r.entries)

\* SortInsert that puts e ahead of the entries with an equal key
SortInsert_Unstable(sorted, e) ==
    LET k == Cardinality({i \in 1..Len(sorted) : sorted[i].atime < e.atime})
    IN  SubSeq(sorted, 1, k) \o <<e>> \o SubSeq(sorted, k + 1, Len(sorted))

\* one step of list.sort(key=atime): e goes behind every entry whose key is
\* not larger
SortInsert(sorted, e) ==
    LET k == Cardinality({i \in 1..Len(sorted) : sorted[i].atime <= e.atime})
    IN  SubSeq(sorted, 1, k) \o <<e>> \o SubSeq(sorted, k + 1, Len(sorted))

\* global_task_trace.sort(key=lambda tr_entry: tr_entry[0][0]): a stable sort
RECURSIVE SortByArrival(_)
SortByArrival(q) ==
    IF q = <<>> THEN <<>>
    ELSE SortInsert(SortByArrival(SubSeq(q, 1, Len(q) - 1)), q[Len(q)])

\* the while loop under stomp.lock: each entry is appended and the queue sorted
RECURSIVE PushAll(_, _)
PushAll(q, temp) ==
    IF temp = <<>> THEN q
    ELSE PushAll(SortByArrival(Append(q, Head(temp))), Tail(temp))

\* SortById that keeps the order of retirement
SortById_Keeps(l) == l

\* end_list.sort(key=lambda end_entry: end_entry[0])
RECURSIVE SortById(_)
SortById(l) ==
    IF l = <<>> THEN <<>>
    ELSE LET rest == SortById(SubSeq(l, 1, Len(l) - 1))
             e == l[Len(l)]
             k == Cardinality({i \in 1..Len(rest) : rest[i][1] <= e[1]})
         IN  SubSeq(rest, 1, k) \o <<e>> \o SubSeq(rest, k + 1, Len(rest))

(***************************************************************************)
(* META.run: the actions                                                   *)
(***************************************************************************)
\* the simulator fields META.run leaves alone
stompRest == <<pc, power_mgmt_enabled, tasks, histogram, last_size_change_time,
               next_power_mgmt_time, next_serv_end_time, next_serv_end, last_event,
               stompObs>>

\* "Read input DAGs"
MetaLoad ==
    /\ mpc = "idle"
    /\ \E trace \in Traces :
         LET r == LoadTrace(trace, Len(trace))
         IN  /\ dag_dict' = r.dict
             /\ dag_id_list' = r.list
             /\ loaded' = trace
    /\ mpc' = "top"
    /\ UNCHANGED <<end_list, completed_list, temp_task_trace, out_csv, sharedVars,
                   emitted, processed, retired, stompRest, sim_time, servers, stats,
                   next_cust_arrival_time>>

\* while(self.dag_id_list): another iteration starts with
\* self.stomp.tlock.acquire()
MetaAcquireTlock ==
    /\ mpc = "top"
    /\ dag_id_list # <<>>
    /\ tlock = "free"
    /\ tlock' = "meta"
    /\ temp_task_trace' = <<>>
    /\ completed_list' = <<>>
    /\ mpc' = "drain"
    /\ UNCHANGED <<dag_dict, dag_id_list, end_list, out_csv, global_task_trace,
                   tasks_completed, task_completed_flag, lock, E_META_START, E_META_DONE,
                   historyVars, stompVars>>

\* one pass of "while (len(completed_list))" on the manager's own state
ProcessCompleted(m, task_completed) ==
    LET dag_id_completed == task_completed.dag_id
    IN  IF dag_id_completed \in DOMAIN m.dag_dict
        THEN LET before == m.dag_dict[dag_id_completed]
                 dag_completed == UpdateCompleted(before, task_completed)
                 log == IF HasNode(before.graph, task_completed.tid)
                        THEN Append(m.processed, task_completed) ELSE m.processed
             IN  IF Len(dag_completed.graph.nodes) = 0
                 THEN [m EXCEPT
                         !.end_list = Append(@, <<dag_id_completed, dag_completed.dag_type,
                                                  dag_completed.resp_time>>),
                         !.dag_id_list = ListRemove(@, dag_id_completed),
                         !.dag_dict = DictDel(@, dag_id_completed),
                         !.processed = log,
                         !.retired = Append(@,
                             [dag_id |-> dag_id_completed,
                              arrival_time |-> dag_completed.arrival_time,
                              ready_time |-> dag_completed.ready_time,
                              resp_time |-> dag_completed.resp_time,
                              dag_type |-> dag_completed.dag_type,
                              finished_at |-> task_completed.finished_at])]
                 ELSE [m EXCEPT !.dag_dict = DictSet(@, dag_id_completed, dag_completed),
                                !.processed = log]
        ELSE m

\* "UPDATE BASED ON COMPLETED TASKS": the whole while loop
RECURSIVE ProcessAllCompleted(_, _)
ProcessAllCompleted(m, list) ==
    IF list = <<>> THEN m
    ELSE ProcessAllCompleted(ProcessCompleted(m, Head(list)), Tail(list))

\* the <<dag_id, tid>> of a list of entries
EntryKeys(entries) == [i \in 1..Len(entries) |-> <<entries[i].dag_id, entries[i].tid>>]

\* the completion queue is drained and tlock released; then, on the manager's
\* own state, the completions are applied and the ready tasks collected
MetaDrainAndUpdate ==
    /\ mpc = "drain"
    /\ tasks_completed' = <<>>
    /\ tlock' = "free"
    /\ completed_list' = <<>>
    /\ LET m == ProcessAllCompleted(
                    [dag_dict |-> dag_dict, dag_id_list |-> dag_id_list,
                     end_list |-> end_list, processed |-> processed,
                     retired |-> retired],
                    completed_list \o tasks_completed)
           r == ScanDags(m.dag_dict, m.dag_id_list, 1, temp_task_trace)
       IN  /\ dag_dict' = r.dict
           /\ dag_id_list' = m.dag_id_list
           /\ end_list' = m.end_list
           /\ processed' = m.processed
           /\ retired' = m.retired
           /\ temp_task_trace' = r.entries
           /\ emitted' = emitted \o EntryKeys(r.entries)
           /\ mpc' = IF r.ok THEN "acquire_lock" ELSE "error"
    /\ UNCHANGED <<out_csv, global_task_trace, task_completed_flag, lock, E_META_START,
                   E_META_DONE, loaded, stompVars>>

\* a refresh that leaves next_cust_arrival_time as it was
RefreshNextArrival_Keeps(q, cur) == cur

\* next_cust_arrival_time after the push: the arrival time of the head of a
\* non-empty queue
RefreshNextArrival(q, cur) ==
    IF Len(q) > 0 /\ cur # q[1].atime THEN q[1].atime ELSE cur

\* self.stomp.lock.acquire(); the entries go to the ready queue, which is
\* sorted; next_cust_arrival_time is set to the head of the queue
MetaLockAndPush ==
    /\ mpc = "acquire_lock"
    /\ lock = "free"
    /\ lock' = "meta"
    /\ LET q == PushAll(global_task_trace, temp_task_trace)
       IN  /\ global_task_trace' = q
           /\ next_cust_arrival_time' = RefreshNextArrival(q, next_cust_arrival_time)
    /\ temp_task_trace' = <<>>
    /\ mpc' = "acquire_tlock_flag"
    /\ UNCHANGED <<dag_dict, dag_id_list, end_list, completed_list, out_csv,
                   tasks_completed, task_completed_flag, tlock, E_META_START,
                   E_META_DONE, historyVars, stompRest, sim_time, servers, stats>>

\* self.stomp.tlock.acquire(), with stomp.lock held
MetaAcquireTlockFlag ==
    /\ mpc = "acquire_tlock_flag"
    /\ tlock = "free"
    /\ tlock' = "meta"
    /\ mpc' = "flag"
    /\ UNCHANGED <<dag_dict, dag_id_list, end_list, completed_list, temp_task_trace,
                   out_csv, global_task_trace, tasks_completed, task_completed_flag, lock,
                   E_META_START, E_META_DONE, historyVars, stompVars>>

\* MetaLowerFlagAndRelease with the tlock.release() of line 219 left out
MetaLowerFlagAndRelease_KeepsTlock ==
    /\ mpc = "flag"
    /\ task_completed_flag' =
           IF task_completed_flag = 1 /\ Len(tasks_completed) = 0
           THEN 0 ELSE task_completed_flag
    /\ tlock' = tlock
    /\ lock' = "free"
    /\ E_META_START' = 1
    /\ stats' = DictSet(stats, "Tasks Generated by META", 1)
    /\ mpc' = "top"
    /\ UNCHANGED <<dag_dict, dag_id_list, end_list, completed_list, temp_task_trace,
                   out_csv, global_task_trace, tasks_completed, E_META_DONE, historyVars,
                   stompRest, sim_time, servers, next_cust_arrival_time>>

\* task_completed_flag is lowered when the completion queue is empty; both
\* locks are released; E_META_START and stats['Tasks Generated by META'] are
\* set
MetaLowerFlagAndRelease ==
    /\ mpc = "flag"
    /\ task_completed_flag' =
           IF task_completed_flag = 1 /\ Len(tasks_completed) = 0
           THEN 0 ELSE task_completed_flag
    /\ tlock' = "free"
    /\ lock' = "free"
    /\ E_META_START' = 1
    /\ stats' = DictSet(stats, "Tasks Generated by META", 1)
    /\ mpc' = "top"
    /\ UNCHANGED <<dag_dict, dag_id_list, end_list, completed_list, temp_task_trace,
                   out_csv, global_task_trace, tasks_completed, E_META_DONE, historyVars,
                   stompRest, sim_time, servers, next_cust_arrival_time>>

\* "META completed": E_META_DONE is set and out.csv written from the sorted
\* end_list
MetaDone ==
    /\ mpc = "top"
    /\ dag_id_list = <<>>
    /\ E_META_DONE' = 1
    /\ out_csv' = SortById(end_list)
    /\ end_list' = <<>>
    /\ mpc' = "done"
    /\ UNCHANGED <<dag_dict, dag_id_list, completed_list, temp_task_trace,
                   global_task_trace, tasks_completed, task_completed_flag, lock, tlock,
                   E_META_START, historyVars, stompVars>>

(***************************************************************************)
(* The simulator's side of the two queues.  src/stomp.py holds no code for *)
(* it; it follows the description of the event loop and of the completion  *)
(* record.  Server.assign_task and Server.reset are those of src/stomp.py. *)
(***************************************************************************)
\* the task object the simulator makes of a ready descriptor
BridgeTask(entry) ==
    [type |-> entry.task, arrival_time |-> entry.atime, dag_id |-> entry.dag_id,
     tid |-> entry.tid]

\* earliest_end(): the busy server with the smallest end, the lowest id on ties
EarliestEnd(srvs) ==
    LET busy == {id \in ServerIds : srvs[id].busy}
    IN  IF busy = {} THEN None
        ELSE Some(CHOOSE id \in busy :
                    \A o \in busy :
                       \/ Val(srvs[id].curr_job_end_time) < Val(srvs[o].curr_job_end_time)
                       \/ /\ Val(srvs[id].curr_job_end_time) = Val(srvs[o].curr_job_end_time)
                          /\ id <= o)

BridgeNextServEnd == IF EarliestEnd(servers) = None THEN Inf
                     ELSE Val(servers[Val(EarliestEnd(servers))].curr_job_end_time)

\* the completion record of a retired server; finished_at is the virtual
\* time of the retirement, which META does not read
CompletionRecord(srv, time) ==
    [dag_id |-> Val(srv.task).dag_id, tid |-> Val(srv.task).tid,
     arrival_time |-> Val(srv.task).arrival_time,
     task_lifetime |-> Val(srv.curr_service_time),
     finished_at |-> time]

\* the simulator takes only one lock at a time: it works on the ready queue
\* inside a section of its own on stomp.lock, or in a section it opens and
\* closes within the step when it holds no lock
QueueLockUsable == lock = "stomp" \/ (lock = "free" /\ tlock # "stomp")
\* the same for the completion queue and stomp.tlock
CompletionLockUsable == tlock = "stomp" \/ (tlock = "free" /\ lock # "stomp")

\* ARRIVAL: virtual time advances to the earliest arrival in the ready queue
BridgeArrival ==
    /\ pc = "run"
    /\ mpc \notin {"idle"}
    /\ QueueLockUsable
    /\ global_task_trace # <<>>
    /\ global_task_trace[1].atime > sim_time
    /\ global_task_trace[1].atime <= BridgeNextServEnd
    /\ sim_time' = global_task_trace[1].atime
    /\ UNCHANGED <<metaVars, sharedVars, historyVars, stompRest, servers, stats,
                   next_cust_arrival_time>>

\* pick: the policy takes a descriptor that has arrived and binds it to an
\* idle server
BridgePick ==
    /\ pc = "run"
    /\ QueueLockUsable
    /\ \E i \in 1..Len(global_task_trace), id \in ServerIds, st \in ServiceTimes :
         /\ global_task_trace[i].atime <= sim_time
         /\ ~servers[id].busy
         /\ servers' = [servers EXCEPT ![id] =
                assign_task(@, sim_time, BridgeTask(global_task_trace[i]), st)]
         /\ global_task_trace' = RemoveAt(global_task_trace, i)
         /\ next_cust_arrival_time' =
                IF Len(global_task_trace) = 1 THEN Inf
                ELSE RemoveAt(global_task_trace, i)[1].atime
    /\ stats' = [stats EXCEPT !["Tasks Generated"] = @ + 1]
    /\ UNCHANGED <<metaVars, tasks_completed, task_completed_flag, lock, tlock,
                   E_META_START, E_META_DONE, historyVars, stompRest, sim_time>>

\* SERVER_FINISH: the earliest-ending server retires, its completion record
\* goes to the completion queue and the flag is raised
BridgeServerFinish ==
    /\ pc = "run"
    /\ CompletionLockUsable
    /\ EarliestEnd(servers) # None
    /\ IF global_task_trace = <<>> THEN TRUE
       ELSE IF global_task_trace[1].atime <= sim_time THEN TRUE
       ELSE global_task_trace[1].atime > BridgeNextServEnd
    /\ LET id == Val(EarliestEnd(servers))
           time == BridgeNextServEnd
       IN  /\ sim_time' = time
           /\ tasks_completed' = Append(tasks_completed, CompletionRecord(servers[id], time))
           /\ servers' = [servers EXCEPT ![id] =
                  [ServerReset(@) EXCEPT !.last_stopped_at = time]]
    /\ task_completed_flag' = 1
    /\ UNCHANGED <<metaVars, global_task_trace, lock, tlock, E_META_START, E_META_DONE,
                   historyVars, stompRest, stats, next_cust_arrival_time>>

\* the termination predicate: tasks are still admitted, or the ready queue
\* holds a descriptor, or a server is busy
BridgeLoopCondition ==
    \/ stats["Tasks Generated"] < max_tasks_simulated
    \/ global_task_trace # <<>>
    \/ EarliestEnd(servers) # None

\* the simulator finds its termination predicate false at the loop top
BridgeExit ==
    /\ pc = "run"
    /\ ~BridgeLoopCondition
    /\ pc' = "exited"
    /\ UNCHANGED <<power_mgmt_enabled, sim_time, tasks, servers, stats, histogram,
                   last_size_change_time, next_cust_arrival_time, next_power_mgmt_time,
                   next_serv_end_time, next_serv_end, last_event, stompObs, metaVars,
                   sharedVars, historyVars>>

InitMeta ==
    StompInit /\ power_mgmt_enabled = FALSE /\ max_tasks_simulated = MaxTasks /\ MetaIdle

NextMeta ==
    \/ MetaLoad
    \/ MetaAcquireTlock
    \/ MetaDrainAndUpdate
    \/ MetaLockAndPush
    \/ MetaAcquireTlockFlag
    \/ MetaLowerFlagAndRelease
    \/ MetaDone
    \/ BridgeArrival
    \/ BridgePick
    \/ BridgeServerFinish

SpecMeta == InitMeta /\ [][NextMeta]_vars

\* META.run next to a simulator that is given max_tasks_simulated = 0.  The
\* manager and the simulator are two threads, each of which keeps running
\* while it has a step to take.
InitMetaNoTasks ==
    StompInit /\ power_mgmt_enabled = FALSE /\ max_tasks_simulated = 0 /\ MetaIdle

MetaStep ==
    \/ MetaLoad
    \/ MetaAcquireTlock
    \/ MetaDrainAndUpdate
    \/ MetaLockAndPush
    \/ MetaAcquireTlockFlag
    \/ MetaLowerFlagAndRelease
    \/ MetaDone

BridgeStep ==
    \/ BridgeArrival
    \/ BridgePick
    \/ BridgeServerFinish
    \/ BridgeExit

NextMetaNoTasks == MetaStep \/ BridgeStep

FairSpecMetaNoTasks ==
    InitMetaNoTasks /\ [][NextMetaNoTasks]_vars /\ WF_vars(MetaStep) /\ WF_vars(BridgeStep)

\* META.run, for the arrival traces of one line, next to a simulator whose
\* sections on the two locks last several steps.  A holder releases its lock in the end; a manager that
\* keeps finding the lock it waits for released gets it in the end.
StompAcquireLock ==
    /\ pc = "run"
    /\ mpc # "idle"
    /\ lock = "free"
    /\ tlock # "stomp"
    /\ lock' = "stomp"
    /\ UNCHANGED <<stompVars, metaVars, global_task_trace, tasks_completed,
                   task_completed_flag, tlock, E_META_START, E_META_DONE, historyVars>>

StompReleaseLock ==
    /\ lock = "stomp"
    /\ lock' = "free"
    /\ UNCHANGED <<stompVars, metaVars, global_task_trace, tasks_completed,
                   task_completed_flag, tlock, E_META_START, E_META_DONE, historyVars>>

StompAcquireTlock ==
    /\ pc = "run"
    /\ mpc # "idle"
    /\ tlock = "free"
    /\ lock # "stomp"
    /\ tlock' = "stomp"
    /\ UNCHANGED <<stompVars, metaVars, global_task_trace, tasks_completed,
                   task_completed_flag, lock, E_META_START, E_META_DONE, historyVars>>

StompReleaseTlock ==
    /\ tlock = "stomp"
    /\ tlock' = "free"
    /\ UNCHANGED <<stompVars, metaVars, global_task_trace, tasks_completed,
                   task_completed_flag, lock, E_META_START, E_META_DONE, historyVars>>

\* "Read input DAGs" for an arrival trace of one line
MetaLoadOneLine == MetaLoad /\ Len(loaded') = 1

NextLocks ==
    \/ MetaLoadOneLine
    \/ MetaAcquireTlock
    \/ MetaDrainAndUpdate
    \/ MetaLockAndPush
    \/ MetaAcquireTlockFlag
    \/ MetaLowerFlagAndRelease
    \/ MetaDone
    \/ BridgeArrival
    \/ BridgePick
    \/ BridgeServerFinish
    \/ StompAcquireLock
    \/ StompReleaseLock
    \/ StompAcquireTlock
    \/ StompReleaseTlock

FairSpecLocks ==
    /\ InitMeta
    /\ [][NextLocks]_vars
    /\ WF_vars(StompReleaseLock) /\ WF_vars(StompReleaseTlock)
    /\ SF_vars(MetaAcquireTlock) /\ SF_vars(MetaLockAndPush) /\ SF_vars(MetaAcquireTlockFlag)

(***************************************************************************)
(* Claims about STOMP.run                                                  *)
(***************************************************************************)
NumBusyOfType(t) == Cardinality({id \in ServerIds : servers[id].busy /\ servers[id].type = t})
NumBusy == Cardinality({id \in ServerIds : servers[id].busy})

\* C1: across the events handled by STOMP.run, sim_time never decreases: its
\* value after a main-loop iteration is >= its value before the iteration,
\* for every integer service-time draw, negative draws included.
C1_SimTimeNondecreasing == [][sim_time' >= sim_time]_vars

\* C5: at every main-loop iteration boundary, for each server type t,
\* stats['Available Servers'][t] plus the number of busy servers of type t
\* equals the configured count of t, and stats['Busy Servers'] equals the
\* number of servers whose busy flag is set.
C5_ServerAccounting ==
    /\ \A t \in ServerTypes :
          stats["Available Servers"][t] + NumBusyOfType(t) = ServerCount[t]
    /\ stats["Busy Servers"] = NumBusy

\* C5 witness: an iteration that released a server and bound one
C5_Witness ==
    /\ stats["Tasks Serviced"] >= 1
    /\ NumBusy >= 1
    /\ last_event = E_SERVER_FINISHES

\* C6: a server is bound only while idle: when the policy binds or returns a
\* server that was already busy the simulator does not account a new
\* binding, so stats['Busy Servers'] never exceeds the number of servers, no
\* stats['Available Servers'][t] goes below 0, and the two counters keep
\* describing the servers.
C6_BusyServerNotAccounted ==
    /\ stats["Busy Servers"] <= NumServers
    /\ \A t \in ServerTypes : stats["Available Servers"][t] >= 0
    /\ stats["Busy Servers"] = NumBusy

(***************************************************************************)
(* Claims about META.run                                                   *)
(***************************************************************************)
\* the DAG object that the trace leaves in dag_dict for a dag_id
LoadedDag(dag_id) == LoadTrace(loaded, Len(loaded)).dict[dag_id]

\* the predecessors of a task in the graph its DAG was loaded with
Predecessors(dag_id, tid) ==
    {e[1] : e \in {x \in LoadedDag(dag_id).graph.edges : x[2] = tid}}

ProcessedKeys == {<<processed[i].dag_id, processed[i].tid>> : i \in 1..Len(processed)}
ProcessedOf(dag_id) == SelectSeq(processed, LAMBDA c : c.dag_id = dag_id)

RECURSIVE SumLifetime(_)
SumLifetime(cs) == IF cs = <<>> THEN 0 ELSE Head(cs).task_lifetime + SumLifetime(Tail(cs))

NumEmitted(k) == Cardinality({i \in 1..Len(emitted) : emitted[i] = k})
FirstEmitted(k) == CHOOSE i \in 1..Len(emitted) :
                      emitted[i] = k /\ \A j \in 1..(i - 1) : emitted[j] # k
QueuePos(entry) == FirstEmitted(<<entry.dag_id, entry.tid>>)

\* C2: a ready descriptor for task (dag_id, tid) is built, and so appended to
\* the ready queue, only after a completion record has been processed for
\* every predecessor of tid in that DAG's graph.
C2_PrecedenceRespected ==
    \A i \in 1..Len(emitted) :
        \A p \in Predecessors(emitted[i][1], emitted[i][2]) :
            <<emitted[i][1], p>> \in ProcessedKeys

\* C2 witness: the node of a join DAG that has two predecessors was emitted
C2_Witness ==
    \E i \in 1..Len(emitted) :
        Cardinality(Predecessors(emitted[i][1], emitted[i][2])) = 2

\* C3: each task (dag_id, tid) is emitted at most once, however many manager
\* iterations pass before its completion arrives.
C3_EmittedAtMostOnce ==
    \A i \in 1..Len(emitted) : NumEmitted(emitted[i]) <= 1

\* C3 witness: the manager has gone through its scan again while a task it
\* emitted in an earlier iteration is still waiting in the ready queue
C3_Witness ==
    /\ E_META_START = 1
    /\ mpc = "acquire_lock"
    /\ global_task_trace # <<>>
    /\ \E i \in 1..Len(emitted) : emitted[i] \notin ProcessedKeys

\* C4: the shared ready queue is sorted by effective arrival time ascending,
\* and descriptors with equal arrival time keep the order in which the
\* manager appended them, after any number of manager batches interleaved
\* with removals by the simulator.
C4_ReadyQueueSortedStable ==
    \A i, j \in 1..Len(global_task_trace) :
        i < j =>
           /\ global_task_trace[i].atime <= global_task_trace[j].atime
           /\ global_task_trace[i].atime = global_task_trace[j].atime
                 => QueuePos(global_task_trace[i]) < QueuePos(global_task_trace[j])

\* C4 witness: after a removal by the simulator and a later batch, two
\* descriptors with equal arrival time are in the queue
C4_Witness ==
    /\ Len(global_task_trace) >= 2
    /\ global_task_trace[1].atime = global_task_trace[2].atime
    /\ Len(processed) >= 1
    /\ E_META_START = 1

\* C7: after the manager processes a completion, the DAG's ready_time equals
\* the virtual time at which that task finished on its server, so the
\* resp_time recorded at terminal retirement is (finish time of the last
\* task) - (DAG arrival_time), time waited in the ready queue included.
C7_ReadyTimeIsFinishTime ==
    /\ \A d \in DOMAIN dag_dict :
          ProcessedOf(d) # <<>> =>
              dag_dict[d].ready_time = ProcessedOf(d)[Len(ProcessedOf(d))].finished_at
    /\ \A i \in 1..Len(retired) :
          retired[i].resp_time = retired[i].finished_at - retired[i].arrival_time

\* C8: for a fully chained DAG of N tasks the resp_time recorded when the
\* DAG retires equals the sum of the N service times reported in its
\* completion records, and the DAG retires exactly when the N-th completion
\* is processed.
C8_ChainRespTimeIsSum ==
    /\ \A i \in 1..Len(retired) :
          retired[i].dag_type = "chain" =>
              /\ retired[i].resp_time = SumLifetime(ProcessedOf(retired[i].dag_id))
              /\ Len(ProcessedOf(retired[i].dag_id)) = ChainLen
    /\ \A d \in DOMAIN dag_dict :
          dag_dict[d].dag_type = "chain" => Len(ProcessedOf(d)) < ChainLen

\* C8 witness: a chained DAG has retired after tasks of nonzero service time
C8_Witness ==
    \E i \in 1..Len(retired) :
        /\ retired[i].dag_type = "chain"
        /\ retired[i].resp_time = ChainLen * MaxService
        /\ retired[i].arrival_time > 0

\* C9: for every active DAG ready_time >= arrival_time, and for every DAG
\* that reaches the terminal state the recorded resp_time equals
\* ready_time - arrival_time and is >= 0.
C9_ReadyTimeNotBeforeArrival ==
    /\ \A d \in DOMAIN dag_dict : dag_dict[d].ready_time >= dag_dict[d].arrival_time
    /\ \A i \in 1..Len(retired) :
          /\ retired[i].resp_time = retired[i].ready_time - retired[i].arrival_time
          /\ retired[i].resp_time >= 0

CountId(rows, id) == Cardinality({i \in 1..Len(rows) : rows[i][1] = id})
CountLoaded(id) == Cardinality({i \in 1..Len(loaded) : loaded[i].dag_id = id})

\* C10: META_DONE is raised only after the active DAG list is empty, and the
\* result list then holds exactly one row per DAG read from the arrival
\* trace, ordered by dag_id ascending.
C10_ResultRows ==
    /\ E_META_DONE = 1 => dag_id_list = <<>>
    /\ mpc = "done" =>
          /\ E_META_DONE = 1
          /\ \A id \in 0..(MaxDags - 1) : CountId(out_csv, id) = CountLoaded(id)
          /\ \A i, j \in 1..Len(out_csv) : i < j => out_csv[i][1] <= out_csv[j][1]

\* C10 witness: the manager is done with two DAGs that retired in
\* descending order of dag_id
C10_Witness ==
    /\ mpc = "done"
    /\ Len(out_csv) = 2
    /\ retired[1].dag_id > retired[2].dag_id

(***************************************************************************)
(* Claims about the statistics of STOMP                                    *)
(***************************************************************************)
RECURSIVE SumBins(_, _)
SumBins(h, b) == IF b < 0 THEN 0 ELSE h[b] + SumBins(h, b - 1)

\* C16: after the final histogram update of print_stats and before the
\* normalisation, the bins of the queue-size histogram add up to sim_time,
\* and each bin holds the virtual time the queue spent at the sizes that map
\* to it, for every sequence of arrivals, picks and completions.
C16_HistogramSumIsSimTime ==
    pc = "printed" =>
        /\ SumBins(histogram, NumBins - 1) = sim_time
        /\ \A b \in 0..(NumBins - 1) : histogram[b] = occupancy[b]

\* C16 witness: statistics printed after a run in which the queue spent time
\* empty and time with a task waiting
C16_Witness ==
    /\ pc = "printed"
    /\ histogram[0] > 0
    /\ histogram[1] > 0

\* C15: for every server, in every state reached by STOMP.run, the moment
\* right after a task is assigned included, busy_time <= sim_time.
C15_BusyTimeAtMostSimTime ==
    \A id \in DOMAIN servers : servers[id].busy_time <= sim_time

\* C17: when release_server calls remove_task_from_server for a server, the
\* server is already idle: its busy flag is cleared and its task reset.
C17_ReleaseHookSeesIdleServer ==
    on_release_arg # None =>
        /\ ~Val(on_release_arg).busy
        /\ ~Val(on_release_arg).has_task

\* C17 amended: when release_server calls remove_task_from_server for a
\* server, the server has not been reset yet: its busy flag is still set and
\* it still holds the task that finished; the server is idle once
\* release_server has returned.
C17_ReleaseHookSeesBusyServer ==
    on_release_arg # None =>
        /\ Val(on_release_arg).busy
        /\ Val(on_release_arg).has_task

\* C17 witness: a server has been released and is idle again
C17_Witness ==
    /\ on_release_arg # None
    /\ last_event = E_SERVER_FINISHES
    /\ \E id \in DOMAIN servers : ~servers[id].busy /\ servers[id].last_stopped_at = sim_time

(***************************************************************************)
(* Claims about the main loop of STOMP.run                                 *)
(***************************************************************************)
\* the instants of the events that may be selected: power management only
\* if enabled, arrival only while tasks are admitted
EnabledInstants ==
    (IF power_mgmt_enabled THEN {next_power_mgmt_time} ELSE {})
    \cup (IF stats["Tasks Generated"] < max_tasks_simulated
          THEN {next_cust_arrival_time} ELSE {})
    \cup {next_serv_end_time}

MinInstant == CHOOSE m \in EnabledInstants : \A x \in EnabledInstants : m <= x

\* the event of the smallest enabled instant, power management before
\* arrival before server finish on ties
MinRuleEvent ==
    IF power_mgmt_enabled /\ next_power_mgmt_time = MinInstant THEN E_PWR_MGMT
    ELSE IF stats["Tasks Generated"] < max_tasks_simulated
            /\ next_cust_arrival_time = MinInstant THEN E_TASK_ARRIVAL
    ELSE E_SERVER_FINISHES

\* C18: the event an iteration handles is the one with the smallest instant
\* among the enabled instants, ties going to PWR_MGMT, then ARRIVAL, then
\* SERVER_FINISH; virtual time moves to that instant; and whenever
\* SERVER_FINISH is selected both assertions hold.
C18_EventSelectionOrder ==
    [][(pc = "run" /\ LoopCondition(Cur)) =>
          /\ last_event' = MinRuleEvent
          /\ sim_time' = MinInstant
          /\ MinRuleEvent = E_SERVER_FINISHES => SelectionAsserts(Cur)]_vars

\* C18 witness: an arrival was handled at the instant at which a server that
\* was bound earlier ends
C18_Witness ==
    /\ last_event = E_TASK_ARRIVAL
    /\ \E id \in DOMAIN servers :
          /\ servers[id].busy
          /\ Val(servers[id].curr_job_end_time) = sim_time
          /\ Val(servers[id].curr_job_start_time) < sim_time

RECURSIVE SumReqs(_, _)
SumReqs(srvs, ids) ==
    IF ids = {} THEN 0
    ELSE LET id == CHOOSE x \in ids : TRUE
         IN  srvs[id].num_reqs + SumReqs(srvs, ids \ {id})

\* the number of successful picks so far: every pick is one assign_task
NumPicks == SumReqs(servers, DOMAIN servers)

\* C20 as stated: stats['Tasks Generated'] is incremented by one on each
\* successful pick and by nothing else, so at every loop boundary it equals
\* the number of successful picks so far.
C20_TasksGeneratedCountsPicks == stats["Tasks Generated"] = NumPicks

\* C20 amended: stats['Tasks Generated'] is incremented by one on each
\* arrival that is accepted into the queue and by nothing else, so at every
\* loop boundary it equals the number of tasks waiting in the queue plus the
\* number of successful picks so far.
C20_TasksGeneratedCountsAccepted == stats["Tasks Generated"] = Len(tasks) + NumPicks

\* C20 witness: two arrivals accepted, one of them picked, one waiting
C20_Witness ==
    /\ stats["Tasks Generated"] = 2
    /\ Len(tasks) = 1
    /\ NumPicks = 1

(***************************************************************************)
(* Claims about the progress of STOMP.run                                  *)
(***************************************************************************)
NoServers == DOMAIN servers = {}

\* C12: with zero servers of every type and max_tasks_simulated > 0,
\* STOMP.run never exits its loop normally, and the lack of progress is
\* detected: the run reaches the failing check of the SERVER_FINISH path
\* instead of looping forever.
C12_NoServersIsDetected ==
    /\ []((NoServers /\ max_tasks_simulated > 0) => pc \notin {"exited", "printed"})
    /\ (NoServers /\ max_tasks_simulated > 0) ~> (pc = "error")

\* every service time drawn for a task in service is positive
ServiceTimesPositive ==
    \A id \in DOMAIN servers :
        servers[id].busy => Val(servers[id].curr_service_time) >= 1

\* C13: with at least one server, positive service times and a policy that
\* binds whenever a task waits and a server is idle, a run in which arrivals
\* find the queue full still makes progress and STOMP.run terminates.
C13_FullQueueStillTerminates ==
    (~NoServers /\ []ServiceTimesPositive) => <>(pc = "exited")

\* no task waits while a server is idle
NoWaitingTaskWithIdleServer == tasks = <<>> \/ IdleServers(Cur) = {}

\* C19 as stated: after each event handler the policy's pick is invoked
\* again and again until it returns none, so the last pick of an iteration
\* returned none; and with a policy that binds whenever a task waits and a
\* server is idle no iteration begins with a non-empty queue and an idle
\* server.
C19_PickRepeatedUntilNone ==
    /\ last_event # E_NOTHING => ~last_pick
    /\ pc = "run" => NoWaitingTaskWithIdleServer

\* C19 amended: after each event handler the policy's pick is invoked once;
\* with a policy that binds whenever a task waits and a server is idle no
\* iteration begins with a non-empty queue and an idle server.
C19_OnePickLeavesNoIdleServer == pc = "run" => NoWaitingTaskWithIdleServer

\* C19 witness: a task that waited while every server was busy was bound by
\* the pick that followed a server's release
C19_Witness ==
    /\ pc = "run"
    /\ last_event = E_SERVER_FINISHES
    /\ last_pick
    /\ \E id \in DOMAIN servers :
          /\ servers[id].busy
          /\ Val(servers[id].curr_job_start_time) = sim_time
          /\ Val(servers[id].task).arrival_time < sim_time

(***************************************************************************)
(* Claims about META.run and the simulator together                        *)
(***************************************************************************)
\* C14: the manager never holds both locks at once: tlock is released
\* before lock is acquired, and tlock is not acquired again while lock is
\* held.
C14_ManagerNeverHoldsBothLocks == ~(lock = "meta" /\ tlock = "meta")

\* C11: with max_tasks_simulated = 0 and a non-empty workload, once the
\* simulator has left its loop without handling any event the run still
\* finishes: the manager loop terminates and out.csv gets no result row.
C11_NoTasksRunStillFinishes ==
    (max_tasks_simulated = 0 /\ pc = "exited" /\ stats["Tasks Generated"] = 0)
        ~> (mpc = "done" /\ out_csv = <<>>)

(***************************************************************************)
(* Claims about the cached earliest completion and the task counters       *)
(***************************************************************************)
BusyIds == {id \in DOMAIN servers : servers[id].busy}
EndOf(id) == Val(servers[id].curr_job_end_time)
\* the smallest curr_job_end_time over the busy servers, +infinity when none
MinEnd == IF BusyIds = {} THEN Inf
          ELSE CHOOSE m \in {EndOf(id) : id \in BusyIds} : \A id \in BusyIds : m <= EndOf(id)
\* the busy servers that share the smallest end time
EarliestIds == {id \in BusyIds : EndOf(id) = MinEnd}
LowestId(ids) == CHOOSE i \in ids : \A j \in ids : i <= j

\* C21: when two or more busy servers share the smallest end time, the
\* server recorded in next_serv_end is the one with the lowest id, at the
\* end of every iteration (after the rescan of release_server and after a
\* binding of step 3).
C21_TieResolvedByLowestId ==
    (pc = "run" /\ Cardinality(EarliestIds) >= 2)
        => next_serv_end = Some(LowestId(EarliestIds))

\* C26: at every iteration boundary next_serv_end_time is the smallest
\* curr_job_end_time over the busy servers (+infinity when none is busy) and
\* next_serv_end is a busy server with that end time (None when none is
\* busy).
C26_CachedEarliestEndIsExact ==
    pc = "run" =>
        /\ next_serv_end_time = MinEnd
        /\ IF BusyIds = {} THEN next_serv_end = None
           ELSE /\ next_serv_end # None
                /\ Val(next_serv_end) \in EarliestIds

\* a release was followed by a rescan that found the other server still
\* busy, with a later end time
C26_Witness ==
    /\ pc = "run"
    /\ last_event = E_SERVER_FINISHES
    /\ stats["Tasks Serviced"] >= 1
    /\ Cardinality(BusyIds) = 1
    /\ next_serv_end = Some(LowestId(BusyIds))
    /\ next_serv_end_time = sim_time + 1

\* C25: at every iteration boundary Tasks Generated = len(tasks) + Busy
\* Servers + Tasks Serviced and Running Tasks = Busy Servers; when the loop
\* has exited normally with max_tasks_simulated > 0, Tasks Serviced = Tasks
\* Generated = max_tasks_simulated.
C25_TaskConservation ==
    /\ pc \in {"run", "exited"} =>
          /\ stats["Tasks Generated"] =
                 Len(tasks) + stats["Busy Servers"] + stats["Tasks Serviced"]
          /\ stats["Running Tasks"] = stats["Busy Servers"]
    /\ (pc = "exited" /\ max_tasks_simulated > 0) =>
          /\ stats["Tasks Serviced"] = stats["Tasks Generated"]
          /\ stats["Tasks Generated"] = max_tasks_simulated

\* the loop has exited normally after generating and servicing every task
C25_Witness ==
    /\ pc = "exited"
    /\ max_tasks_simulated = MaxTasks
    /\ stats["Tasks Serviced"] = MaxTasks

(***************************************************************************)
(* Claims about the manager's bookkeeping and the two locks                *)
(***************************************************************************)
\* the arrival time of the head of the ready queue, +infinity when it is empty
QueueHeadArrival(q) == IF q = <<>> THEN Inf ELSE q[1].atime

\* C22: when the manager releases the queue lock after its push,
\* next_cust_arrival_time is the arrival time of the head of the ready queue
\* when the queue is non-empty and +infinity when it is empty.
C22_NextArrivalIsQueueHead ==
    [][(lock = "meta" /\ lock' = "free")
           => next_cust_arrival_time' = QueueHeadArrival(global_task_trace')]_vars

\* the manager has pushed and released, and the refresh moved
\* next_cust_arrival_time away from the value the simulator started with
C22_Witness ==
    /\ mpc = "top"
    /\ E_META_START = 1
    /\ lock = "free"
    /\ Len(global_task_trace) >= 2
    /\ next_cust_arrival_time = global_task_trace[1].atime
    /\ next_cust_arrival_time = MaxArrival

\* the dag_ids dag_id_list holds
IdListValues == {dag_id_list[i] : i \in 1..Len(dag_id_list)}

\* C23: at the top of every manager iteration, and at the scan of
\* dag_id_list that follows the completions, the key set of dag_dict equals
\* the set of values of dag_id_list, so that every dag_id iterated from the
\* list resolves in dag_dict; for every trace the loader accepts, repeated
\* dag_ids included.
C23_DictKeysAreListValues ==
    /\ DOMAIN dag_dict = IdListValues
    /\ mpc # "error"

====
